---- MODULE Spec2Model ----
(***************************************************************************)
(* Set operations (Union, Intersect, Diff) on sorted numeric streams.      *)
(* Model of src/operations.go: SliceStream, ChannelStream, the merge loop  *)
(* iterate, the three stages built on it, and ToSlice; together with the   *)
(* drivers of the test file (a single stage whose inputs are drained       *)
(* afterwards, and a nested pipeline of two stages).                       *)
(***************************************************************************)
EXTENDS Integers, Sequences, FiniteSets, TLC

VARIABLES slice, pos, stage, closed, todo, ret

vars == <<slice, pos, stage, closed, todo, ret>>

(* ------------------------------ bounds -------------------------------- *)

\* values of the single-stage inputs are drawn from 1..MaxVal
MaxVal == 4
\* values of the nested-pipeline inputs are drawn from 1..PipeVal
PipeVal == 3
\* values and lengths of the unsorted inputs are bounded by AnyVal, AnyLen
AnyVal == 2
AnyLen == 3
\* further ToSlice calls made on a stream after the first has returned
Again == 2

(* ------------------------------ naming -------------------------------- *)

\* the slice-backed streams of the tests
Slices == {"a", "b", "c", "d"}
\* the stages; each owns the ChannelStream it returns, named after it
Stages == {"outer", "inner"}
Ops == {"union", "intersect", "diff"}

\* a *T argument of an operation: <<>> is nil, <<v>> points to v
Nil == <<>>
Ref(v) == <<v>>

RECURSIVE SetToAsc(_)
SetToAsc(S) ==
    IF S = {} THEN <<>>
    ELSE LET m == CHOOSE x \in S : \A y \in S : x <= y
         IN <<m>> \o SetToAsc(S \ {m})

Reverse(s) == [i \in 1..Len(s) |-> s[Len(s) + 1 - i]]

Elems(s) == {s[i] : i \in 1..Len(s)}

\* the elements of S as a sequence in the declared direction
InDirection(S, asc) == IF asc THEN SetToAsc(S) ELSE Reverse(SetToAsc(S))

\* s is strictly sorted in the declared direction
StrictlySorted(s, asc) ==
    \A i \in 1..(Len(s) - 1) : IF asc THEN s[i] < s[i + 1] ELSE s[i] > s[i + 1]

SortedSeqs(n, asc) == {InDirection(S, asc) : S \in SUBSET (1..n)}

AnySeqs(n, len) == UNION {[1..l -> 1..n] : l \in 0..len}

IsSuffix(s, t) == Len(s) <= Len(t) /\ s = SubSeq(t, Len(t) - Len(s) + 1, Len(t))

(* ------------------------- the three operations ----------------------- *)

\* what each operation callback pushes to result for (a, b): <<>> or <<v>>
UnionOperation(a, b) ==
    IF a # Nil /\ b # Nil THEN a
    ELSE IF a # Nil THEN a
    ELSE IF b # Nil THEN b
    ELSE <<>>

\* mutant: Diff's decision copied into Union
UnionShouldStopLeft(aClosed, bClosed) == aClosed

UnionShouldStop(aClosed, bClosed) == FALSE

\* mutant: the test for b is missing
IntersectOperationLeftOnly(a, b) == IF a # Nil THEN a ELSE <<>>

IntersectOperation(a, b) == IF a # Nil /\ b # Nil THEN a ELSE <<>>

\* mutant: Diff's decision copied into Intersect
IntersectShouldStopLeft(aClosed, bClosed) == aClosed

IntersectShouldStop(aClosed, bClosed) == aClosed \/ bClosed

\* mutant: the test for b is missing
DiffOperationLeftOnly(a, b) == IF a # Nil THEN a ELSE <<>>

DiffOperation(a, b) == IF a # Nil /\ b = Nil THEN a ELSE <<>>

\* mutant: Union's decision copied into Diff
DiffShouldStopNever(aClosed, bClosed) == FALSE

\* mutant: Intersect's decision copied into Diff
DiffShouldStopEither(aClosed, bClosed) == aClosed \/ bClosed

DiffShouldStop(aClosed, bClosed) == aClosed

operation(op, a, b) ==
    CASE op = "union" -> UnionOperation(a, b)
      [] op = "intersect" -> IntersectOperation(a, b)
      [] op = "diff" -> DiffOperation(a, b)

shouldStop(op, aClosed, bClosed) ==
    CASE op = "union" -> UnionShouldStop(aClosed, bClosed)
      [] op = "intersect" -> IntersectShouldStop(aClosed, bClosed)
      [] op = "diff" -> DiffShouldStop(aClosed, bClosed)

(* ------------------------------ streams ------------------------------- *)

\* mutant: Next rewinds the cursor when it reports exhaustion
SliceStreamNextRewind(sl, p) ==
    IF p < Len(sl)
    THEN [item |-> sl[p + 1], ok |-> TRUE, pos |-> p + 1]
    ELSE [item |-> 0, ok |-> FALSE, pos |-> 0]

\* SliceStream.Next on the slice sl with cursor p (Go's 0-based pos):
\* the item, ok, and the cursor afterwards
SliceStreamNext(sl, p) ==
    IF p < Len(sl)
    THEN [item |-> sl[p + 1], ok |-> TRUE, pos |-> p + 1]
    ELSE [item |-> 0, ok |-> FALSE, pos |-> p]

(* ------------------------- one stage: iterate ------------------------- *)

\* the pcs at which iterate is inside a Next call
ReadPcs == {"next1", "next2", "drain1next", "drain2next"}

\* a stage as constructed by Union/Intersect/Diff: its goroutine is about
\* to enter iterate with empty1, empty2 = true, true and zero i1, i2.
\* History: calls are the op calls made, n1 and n2 count the Next calls that
\* returned on each input, eof1 and eof2 tell that one returned !ok, sent
\* counts the Push calls that returned.
NewStage(op, in1, in2, asc) ==
    [op |-> op, in1 |-> in1, in2 |-> in2, asc |-> asc,
     pc |-> "next1", i1 |-> 0, i2 |-> 0, empty1 |-> TRUE, empty2 |-> TRUE,
     pv |-> 0, cont |-> "next1",
     calls |-> <<>>, n1 |-> 0, n2 |-> 0, eof1 |-> FALSE, eof2 |-> FALSE,
     sent |-> 0]

\* the slot of a stage that was not constructed
NoStage == [NewStage("union", "c", "c", TRUE) EXCEPT !.pc = "none"]

\* mutant: Push does not wait for a receiver, op always returns at once
CallNoBlock(s, a, b, next) ==
    [s EXCEPT !.calls = Append(@, <<a, b>>), !.pc = next, !.cont = next]

\* op(a, b) called from iterate, which goes on at pc next when op returns;
\* op returns at once unless it pushes, and then it blocks in Push
Call(s, a, b, next) ==
    LET e == operation(s.op, a, b)
    IN [s EXCEPT !.calls = Append(@, <<a, b>>),
                 !.pc = IF e = <<>> THEN next ELSE "push",
                 !.pv = IF e = <<>> THEN @ ELSE e[1],
                 !.cont = next]

\* the stream a stage at a read pc is calling Next on
ReadFrom(s) == IF s.pc \in {"next1", "drain1next"} THEN s.in1 ELSE s.in2

\* iterate after `i, readOk = stream.Next()` returned (item, ok)
received(s, item, ok) ==
    CASE s.pc = "next1" ->
           LET t == [s EXCEPT !.i1 = item, !.n1 = @ + 1, !.eof1 = ~ok]
           IN IF ok
              THEN [t EXCEPT !.empty1 = FALSE,
                             !.pc = IF t.empty2 THEN "next2" ELSE "compare"]
              ELSE IF shouldStop(t.op, TRUE, FALSE)
                   THEN [t EXCEPT !.pc = "close"]
                   ELSE [t EXCEPT !.pc = "drain2"]
      [] s.pc = "next2" ->
           LET t == [s EXCEPT !.i2 = item, !.n2 = @ + 1, !.eof2 = ~ok]
           IN IF ok
              THEN [t EXCEPT !.empty2 = FALSE, !.pc = "compare"]
              ELSE IF shouldStop(t.op, FALSE, TRUE)
                   THEN [t EXCEPT !.pc = "close"]
                   ELSE [t EXCEPT !.pc = "drain1"]
      [] s.pc = "drain2next" ->
           LET t == [s EXCEPT !.i2 = item, !.n2 = @ + 1, !.eof2 = ~ok]
           IN IF ok
              THEN Call(t, Nil, Ref(t.i2), "drain2")
              ELSE [t EXCEPT !.pc = "close"]
      [] s.pc = "drain1next" ->
           LET t == [s EXCEPT !.i1 = item, !.n1 = @ + 1, !.eof1 = ~ok]
           IN IF ok
              THEN Call(t, Ref(t.i1), Nil, "drain1")
              ELSE [t EXCEPT !.pc = "close"]

\* top of the loop that returns all from stream2 (stream1 is drained)
drain2(s) ==
    IF ~s.empty2
    THEN Call(s, Nil, Ref(s.i2), "drain2next")
    ELSE [s EXCEPT !.pc = "drain2next"]

\* top of the loop that returns all from stream1 (stream2 is drained)
drain1(s) ==
    IF ~s.empty1
    THEN Call([s EXCEPT !.empty1 = TRUE], Ref(s.i1), Nil, "drain1next")
    ELSE [s EXCEPT !.pc = "drain1next"]

\* mutant: the branch asc && i1 < i2 advances both sides
compareAdvanceBoth(s) ==
    IF s.i1 = s.i2
    THEN Call([s EXCEPT !.empty1 = TRUE, !.empty2 = TRUE],
              Ref(s.i1), Ref(s.i2), "next1")
    ELSE IF s.asc /\ s.i1 < s.i2
    THEN Call([s EXCEPT !.empty1 = TRUE, !.empty2 = TRUE],
              Ref(s.i1), Nil, "next1")
    ELSE IF s.asc /\ s.i1 > s.i2
    THEN Call([s EXCEPT !.empty2 = TRUE], Nil, Ref(s.i2), "next2")
    ELSE IF ~s.asc /\ s.i1 < s.i2
    THEN Call([s EXCEPT !.empty2 = TRUE], Nil, Ref(s.i2), "next2")
    ELSE IF ~s.asc /\ s.i1 > s.i2
    THEN Call([s EXCEPT !.empty1 = TRUE], Ref(s.i1), Nil, "next1")
    ELSE s

\* both streams have values: the five-way comparison, then the loop top,
\* where the side that was emptied is read again
compare(s) ==
    IF s.i1 = s.i2
    THEN Call([s EXCEPT !.empty1 = TRUE, !.empty2 = TRUE],
              Ref(s.i1), Ref(s.i2), "next1")
    ELSE IF s.asc /\ s.i1 < s.i2
    THEN Call([s EXCEPT !.empty1 = TRUE], Ref(s.i1), Nil, "next1")
    ELSE IF s.asc /\ s.i1 > s.i2
    THEN Call([s EXCEPT !.empty2 = TRUE], Nil, Ref(s.i2), "next2")
    ELSE IF ~s.asc /\ s.i1 < s.i2
    THEN Call([s EXCEPT !.empty2 = TRUE], Nil, Ref(s.i2), "next2")
    ELSE IF ~s.asc /\ s.i1 > s.i2
    THEN Call([s EXCEPT !.empty1 = TRUE], Ref(s.i1), Nil, "next1")
    ELSE s

\* Push returned: the receiver took pv
pushed(s) == [s EXCEPT !.pc = s.cont, !.sent = @ + 1]

\* iterate run alone from s to its return over what is left to read, A on
\* stream1 and B on stream2, every Push received at once: the values pushed
RECURSIVE RunStage(_, _, _, _)
RunStage(s, A, B, out) ==
    CASE s.pc = "push" -> RunStage(pushed(s), A, B, Append(out, s.pv))
      [] s.pc \in {"next1", "drain1next"} ->
           IF A # <<>>
           THEN RunStage(received(s, Head(A), TRUE), Tail(A), B, out)
           ELSE RunStage(received(s, 0, FALSE), A, B, out)
      [] s.pc \in {"next2", "drain2next"} ->
           IF B # <<>>
           THEN RunStage(received(s, Head(B), TRUE), A, Tail(B), out)
           ELSE RunStage(received(s, 0, FALSE), A, B, out)
      [] s.pc = "drain1" -> RunStage(drain1(s), A, B, out)
      [] s.pc = "drain2" -> RunStage(drain2(s), A, B, out)
      [] s.pc = "compare" -> RunStage(compare(s), A, B, out)
      [] OTHER -> out

\* ToSlice(Op(NewSliceStream(A), NewSliceStream(B), asc)) with the stage
\* and its reader in lockstep
Output(op, A, B, asc) == RunStage(NewStage(op, "a", "b", asc), A, B, <<>>)

(* ------------------------------ actions ------------------------------- *)

\* the goroutine of TestChannelStream: it pushes the values of src, in
\* order, to its ChannelStream and then closes it
NewProducer(src) ==
    [NewStage("producer", src, src, TRUE) EXCEPT !.pc = "produce"]

\* the producer goes on to its next Push, or to Close after the last one
Produce(k) ==
    /\ stage[k].pc = "produce"
    /\ LET src == stage[k].in1
           r == SliceStreamNext(slice[src], pos[src])
       IN /\ pos' = [pos EXCEPT ![src] = r.pos]
          /\ stage' = [stage EXCEPT ![k] =
                          IF r.ok
                          THEN [@ EXCEPT !.pc = "push", !.pv = r.item,
                                         !.cont = "produce"]
                          ELSE [@ EXCEPT !.pc = "close"]]
    /\ UNCHANGED <<slice, closed, todo, ret>>

\* a stage's Next on a SliceStream input
SliceNext(k) ==
    /\ stage[k].pc \in ReadPcs
    /\ ReadFrom(stage[k]) \in Slices
    /\ LET src == ReadFrom(stage[k])
           r == SliceStreamNext(slice[src], pos[src])
       IN /\ pos' = [pos EXCEPT ![src] = r.pos]
          /\ stage' = [stage EXCEPT ![k] = received(@, r.item, r.ok)]
    /\ UNCHANGED <<slice, closed, todo, ret>>

\* a stage's Next on a ChannelStream input meets the Push of its producer
ChanNext(k) ==
    /\ stage[k].pc \in ReadPcs
    /\ ReadFrom(stage[k]) \in Stages
    /\ LET src == ReadFrom(stage[k])
       IN /\ stage[src].pc = "push"
          /\ stage' = [stage EXCEPT ![k] = received(@, stage[src].pv, TRUE),
                                    ![src] = pushed(@)]
    /\ UNCHANGED <<slice, pos, closed, todo, ret>>

\* a stage's Next on a ChannelStream input whose pipe is closed
ChanNextClosed(k) ==
    /\ stage[k].pc \in ReadPcs
    /\ ReadFrom(stage[k]) \in Stages
    /\ closed[ReadFrom(stage[k])]
    /\ stage' = [stage EXCEPT ![k] = received(@, 0, FALSE)]
    /\ UNCHANGED <<slice, pos, closed, todo, ret>>

Drain1(k) ==
    /\ stage[k].pc = "drain1"
    /\ stage' = [stage EXCEPT ![k] = drain1(@)]
    /\ UNCHANGED <<slice, pos, closed, todo, ret>>

Drain2(k) ==
    /\ stage[k].pc = "drain2"
    /\ stage' = [stage EXCEPT ![k] = drain2(@)]
    /\ UNCHANGED <<slice, pos, closed, todo, ret>>

Compare(k) ==
    /\ stage[k].pc = "compare"
    /\ stage' = [stage EXCEPT ![k] = compare(@)]
    /\ UNCHANGED <<slice, pos, closed, todo, ret>>

\* mutant: the goroutine ends without result.Close()
CloseNever(k) ==
    /\ stage[k].pc = "close"
    /\ stage' = [stage EXCEPT ![k].pc = "done"]
    /\ UNCHANGED <<slice, pos, closed, todo, ret>>

\* mutant: result.Close() is not sequenced after iterate's return
CloseAnyTime(k) ==
    /\ \/ stage[k].pc = "close"
       \/ ~closed[k] /\ stage[k].pc \notin {"none", "done"}
    /\ closed' = [closed EXCEPT ![k] = TRUE]
    /\ stage' = [stage EXCEPT ![k].pc = IF @ = "close" THEN "done" ELSE @]
    /\ UNCHANGED <<slice, pos, todo, ret>>

\* iterate returned: result.Close(), and the goroutine ends
Close(k) ==
    /\ stage[k].pc = "close"
    /\ closed' = [closed EXCEPT ![k] = TRUE]
    /\ stage' = [stage EXCEPT ![k].pc = "done"]
    /\ UNCHANGED <<slice, pos, todo, ret>>

\* ToSlice of the test on a stage's result: Next meets the stage's Push
ToSliceChan ==
    /\ todo # <<>>
    /\ Head(todo) \in Stages
    /\ stage[Head(todo)].pc = "push"
    /\ ret' = [ret EXCEPT ![Head(todo)] = Append(@, stage[Head(todo)].pv)]
    /\ stage' = [stage EXCEPT ![Head(todo)] = pushed(@)]
    /\ UNCHANGED <<slice, pos, closed, todo>>

\* ToSlice on a stage's result: the pipe is closed, ToSlice returns
ToSliceChanEnd ==
    /\ todo # <<>>
    /\ Head(todo) \in Stages
    /\ closed[Head(todo)]
    /\ todo' = Tail(todo)
    /\ UNCHANGED <<slice, pos, stage, closed, ret>>

\* mutant: ToSlice appends the item before it looks at ok
ToSliceSliceAppendFirst ==
    /\ todo # <<>>
    /\ Head(todo) \in Slices
    /\ LET src == Head(todo)
           r == SliceStreamNext(slice[src], pos[src])
       IN /\ pos' = [pos EXCEPT ![src] = r.pos]
          /\ ret' = [ret EXCEPT ![src] = Append(@, r.item)]
          /\ todo' = IF r.ok THEN todo ELSE Tail(todo)
    /\ UNCHANGED <<slice, stage, closed>>

\* ToSlice of the test on one of the input SliceStreams, one Next at a time
ToSliceSlice ==
    /\ todo # <<>>
    /\ Head(todo) \in Slices
    /\ LET src == Head(todo)
           r == SliceStreamNext(slice[src], pos[src])
       IN /\ pos' = [pos EXCEPT ![src] = r.pos]
          /\ ret' = [ret EXCEPT ![src] = IF r.ok THEN Append(@, r.item) ELSE @]
          /\ todo' = IF r.ok THEN todo ELSE Tail(todo)
    /\ UNCHANGED <<slice, stage, closed>>

(* --------------------------- specifications --------------------------- *)

NoneRead == [x \in Slices \cup Stages |-> <<>>]

NewSliceStreams(A, B, C, D) == [a |-> A, b |-> B, c |-> C, d |-> D]

\* TestEarlyFinish: one stage over two slices sorted in the declared
\* direction; the result is drained, then what is left of a and of b
Init ==
    \E asc \in BOOLEAN, op \in Ops :
    \E A \in SortedSeqs(MaxVal, asc), B \in SortedSeqs(MaxVal, asc) :
        /\ slice = NewSliceStreams(A, B, <<>>, <<>>)
        /\ pos = [x \in Slices |-> 0]
        /\ stage = [outer |-> NewStage(op, "a", "b", asc), inner |-> NoStage]
        /\ closed = [k \in Stages |-> FALSE]
        /\ todo = <<"outer", "a", "b">>
        /\ ret = NoneRead

Next ==
    \/ \E k \in Stages : SliceNext(k)
    \/ \E k \in Stages : Drain1(k)
    \/ \E k \in Stages : Drain2(k)
    \/ \E k \in Stages : Compare(k)
    \/ \E k \in Stages : Close(k)
    \/ ToSliceChan
    \/ ToSliceChanEnd
    \/ ToSliceSlice

Spec == Init /\ [][Next]_vars

\* the same driver over slices that need not be sorted
InitAny ==
    \E asc \in BOOLEAN, op \in Ops :
    \E A \in AnySeqs(AnyVal, AnyLen), B \in AnySeqs(AnyVal, AnyLen) :
        /\ slice = NewSliceStreams(A, B, <<>>, <<>>)
        /\ pos = [x \in Slices |-> 0]
        /\ stage = [outer |-> NewStage(op, "a", "b", asc), inner |-> NoStage]
        /\ closed = [k \in Stages |-> FALSE]
        /\ todo = <<"outer", "a", "b">>
        /\ ret = NoneRead

SpecAny == InitAny /\ [][Next]_vars

\* the same operation on (a, b) ascending and on (reverse a, reverse b)
\* descending, as two stages side by side; both results are drained
InitMirror ==
    \E op \in Ops :
    \E A \in SortedSeqs(MaxVal, TRUE), B \in SortedSeqs(MaxVal, TRUE) :
        /\ slice = NewSliceStreams(A, B, Reverse(A), Reverse(B))
        /\ pos = [x \in Slices |-> 0]
        /\ stage = [outer |-> NewStage(op, "a", "b", TRUE),
                    inner |-> NewStage(op, "c", "d", FALSE)]
        /\ closed = [k \in Stages |-> FALSE]
        /\ todo = <<"outer", "inner">>
        /\ ret = NoneRead

NextMirror ==
    \/ \E k \in Stages : SliceNext(k)
    \/ \E k \in Stages : Drain1(k)
    \/ \E k \in Stages : Drain2(k)
    \/ \E k \in Stages : Compare(k)
    \/ \E k \in Stages : Close(k)
    \/ ToSliceChan
    \/ ToSliceChanEnd

SpecMirror == InitMirror /\ [][NextMirror]_vars

\* pipelines of the three operations: a single stage over (a, b), and the
\* nested outer(inner(a, b), c) and outer(c, inner(a, b)); only the result
\* of the outer stage is drained
InitPipe ==
    \E asc \in BOOLEAN, opI \in Ops, opO \in Ops :
    \E shape \in {"single", "left", "right"} :
    \E A \in SortedSeqs(PipeVal, asc), B \in SortedSeqs(PipeVal, asc),
       C \in SortedSeqs(PipeVal, asc) :
        /\ shape = "single" => opI = "union" /\ C = <<>>
        /\ slice = NewSliceStreams(A, B, C, <<>>)
        /\ pos = [x \in Slices |-> 0]
        /\ stage = [inner |-> IF shape = "single" THEN NoStage
                              ELSE NewStage(opI, "a", "b", asc),
                    outer |-> CASE shape = "single" -> NewStage(opO, "a", "b", asc)
                                [] shape = "left" -> NewStage(opO, "inner", "c", asc)
                                [] shape = "right" -> NewStage(opO, "c", "inner", asc)]
        /\ closed = [k \in Stages |-> FALSE]
        /\ todo = <<"outer">>
        /\ ret = NoneRead

NextPipe ==
    \/ \E k \in Stages : SliceNext(k)
    \/ \E k \in Stages : ChanNext(k)
    \/ \E k \in Stages : ChanNextClosed(k)
    \/ \E k \in Stages : Drain1(k)
    \/ \E k \in Stages : Drain2(k)
    \/ \E k \in Stages : Compare(k)
    \/ \E k \in Stages : Close(k)
    \/ ToSliceChan
    \/ ToSliceChanEnd

SpecPipe == InitPipe /\ [][NextPipe]_vars

\* TestComposition: Diff(Intersect(a, b, true), c, true) over ascending
\* slices, drained by ToSlice; every goroutine that can run does run
InitCompose ==
    \E A \in SortedSeqs(PipeVal, TRUE), B \in SortedSeqs(PipeVal, TRUE),
       C \in SortedSeqs(PipeVal, TRUE) :
        /\ slice = NewSliceStreams(A, B, C, <<>>)
        /\ pos = [x \in Slices |-> 0]
        /\ stage = [inner |-> NewStage("intersect", "a", "b", TRUE),
                    outer |-> NewStage("diff", "inner", "c", TRUE)]
        /\ closed = [k \in Stages |-> FALSE]
        /\ todo = <<"outer">>
        /\ ret = NoneRead

NextCompose ==
    \/ \E k \in Stages : SliceNext(k)
    \/ \E k \in Stages : ChanNext(k)
    \/ \E k \in Stages : ChanNextClosed(k)
    \/ \E k \in Stages : Drain1(k)
    \/ \E k \in Stages : Compare(k)
    \/ \E k \in Stages : Close(k)
    \/ ToSliceChan
    \/ ToSliceChanEnd

SpecCompose == InitCompose /\ [][NextCompose]_vars /\ WF_vars(NextCompose)

\* the single stage of Spec with every goroutine that can run running
SpecFair == Init /\ [][Next]_vars /\ WF_vars(Next)

\* TestChannelStream and TestSliceStream: a producer pushes the values of a
\* and closes while ToSlice drains its stream; then ToSlice drains a fresh
\* SliceStream over b
InitChan ==
    \E A \in AnySeqs(AnyVal, AnyLen), B \in AnySeqs(AnyVal, AnyLen) :
        /\ slice = NewSliceStreams(A, B, <<>>, <<>>)
        /\ pos = [x \in Slices |-> 0]
        /\ stage = [outer |-> NewProducer("a"), inner |-> NoStage]
        /\ closed = [k \in Stages |-> FALSE]
        /\ todo = <<"outer", "b">>
        /\ ret = NoneRead

NextChan ==
    \/ \E k \in Stages : Produce(k)
    \/ \E k \in Stages : Close(k)
    \/ ToSliceChan
    \/ ToSliceChanEnd
    \/ ToSliceSlice

SpecChan == InitChan /\ [][NextChan]_vars

\* 1 + Again calls of ToSlice on x, one after another
Repeatedly(x) == [i \in 1..(1 + Again) |-> x]

\* streams read again after they reported exhaustion: a stage over two
\* slices, or a producer and a fresh slice; ToSlice is called 1 + Again
\* times on the ChannelStream and then on each slice
InitAgain ==
    \E asc \in BOOLEAN, op \in Ops \cup {"producer"} :
    \E A \in AnySeqs(AnyVal, AnyLen), B \in AnySeqs(AnyVal, AnyLen) :
        /\ op = "producer" => asc
        /\ slice = NewSliceStreams(A, B, <<>>, <<>>)
        /\ pos = [x \in Slices |-> 0]
        /\ stage = [outer |-> IF op = "producer" THEN NewProducer("a")
                              ELSE NewStage(op, "a", "b", asc),
                    inner |-> NoStage]
        /\ closed = [k \in Stages |-> FALSE]
        /\ todo = Repeatedly("outer")
                    \o (IF op = "producer" THEN <<>> ELSE Repeatedly("a"))
                    \o Repeatedly("b")
        /\ ret = NoneRead

NextAgain ==
    \/ \E k \in Stages : Produce(k)
    \/ Next

SpecAgain == InitAgain /\ [][NextAgain]_vars

(* ------------------------------ the claims ---------------------------- *)

\* ToSlice on stream x has returned
Drained(x) == \A i \in 1..Len(todo) : todo[i] # x

\* the test is over: every ToSlice has returned
TestDone == todo = <<>>

\* C1: draining Union(A, B, asc) over inputs strictly sorted in the declared
\* direction yields exactly the elements of A \cup B, each once, in the
\* declared direction.
C1_UnionIsSetUnion ==
    (stage.outer.op = "union" /\ Drained("outer"))
        => ret.outer = InDirection(Elems(slice.a) \cup Elems(slice.b),
                                   stage.outer.asc)

\* C2: draining Intersect(A, B, asc) over inputs strictly sorted in the
\* declared direction yields exactly the elements of A \cap B, each once,
\* in the declared direction.
C2_IntersectIsSetIntersection ==
    (stage.outer.op = "intersect" /\ Drained("outer"))
        => ret.outer = InDirection(Elems(slice.a) \cap Elems(slice.b),
                                   stage.outer.asc)

\* an intersection of two values was drained from descending inputs, and
\* the stage stopped with input left unread
C2_Witness ==
    /\ stage.outer.op = "intersect"
    /\ ~stage.outer.asc
    /\ TestDone
    /\ Len(ret.outer) = 2
    /\ Len(ret.a) + Len(ret.b) > 0

\* C3: draining Diff(A, B, asc) over inputs strictly sorted in the declared
\* direction yields exactly the elements of A that are not in B, each once,
\* in the declared direction, also when B is exhausted before A.
C3_DiffIsSetDifference ==
    (stage.outer.op = "diff" /\ Drained("outer"))
        => ret.outer = InDirection(Elems(slice.a) \ Elems(slice.b),
                                   stage.outer.asc)

\* b was exhausted first and the rest of a was drained: two values of a
\* descending a followed the exhaustion of b into the result
C3_Witness ==
    /\ stage.outer.op = "diff"
    /\ ~stage.outer.asc
    /\ TestDone
    /\ stage.outer.eof2
    /\ Len(slice.b) > 0
    /\ Len(ret.outer) >= 2
    /\ Len(ret.outer) < Len(slice.a)

\* C4: draining Diff(Intersect(A, B, true), C, true) over strictly ascending
\* A, B, C yields (A \cap B) \ C in ascending order, and the drain terminates.
C4_Composition ==
    /\ [](Drained("outer")
            => ret.outer = SetToAsc((Elems(slice.a) \cap Elems(slice.b))
                                        \ Elems(slice.c)))
    /\ <>TestDone

\* TestComposition itself: Diff(Intersect([1,2,3], [2,3]), [3]) gave [2]
C4_Witness ==
    /\ slice.a = <<1, 2, 3>>
    /\ slice.b = <<2, 3>>
    /\ slice.c = <<3>>
    /\ stage.inner.op = "intersect"
    /\ stage.outer.op = "diff"
    /\ stage.outer.in1 = "inner"
    /\ TestDone
    /\ ret.outer = <<2>>

\* C5: for each operation and all strictly ascending A and B, the result on
\* (reverse(A), reverse(B)) with asc=false is the reverse of the result on
\* (A, B) with asc=true.
C5_DirectionSymmetry ==
    TestDone => ret.inner = Reverse(ret.outer)

\* the values passed to op as its left and as its right argument, in order
LeftArgs(calls) ==
    LET f == SelectSeq(calls, LAMBDA c : c[1] # Nil)
    IN [i \in 1..Len(f) |-> f[i][1][1]]

RightArgs(calls) ==
    LET f == SelectSeq(calls, LAMBDA c : c[2] # Nil)
    IN [i \in 1..Len(f) |-> f[i][2][1]]

\* the head a stage holds of an input: pulled and not passed to op
Head1(s) == IF s.empty1 THEN <<>> ELSE <<s.i1>>
Head2(s) == IF s.empty2 THEN <<>> ELSE <<s.i2>>

\* C6: after an Intersect or Diff stage has terminated, what is readable
\* from each input is a suffix of the input; before it come the values the
\* stage passed to the combine policy, in order, and at most one value that
\* was pulled and not passed, the head buffered when the stop fired; the
\* input whose exhaustion was seen has no such value.
C6_EarlyStopResidue ==
    (stage.outer.op \in {"intersect", "diff"} /\ TestDone)
        => LET s == stage.outer
           IN /\ IsSuffix(ret.a, slice.a)
              /\ IsSuffix(ret.b, slice.b)
              /\ slice.a = LeftArgs(s.calls) \o Head1(s) \o ret.a
              /\ slice.b = RightArgs(s.calls) \o Head2(s) \o ret.b
              /\ s.eof1 => Head1(s) = <<>>
              /\ s.eof2 => Head2(s) = <<>>

\* intersect([1,2,3], [1]): 2 was pulled and dropped, 3 is left on a
C6_Witness ==
    /\ stage.outer.op = "intersect"
    /\ TestDone
    /\ slice.a = <<1, 2, 3>>
    /\ slice.b = <<1>>
    /\ Head1(stage.outer) = <<2>>
    /\ ret.a = <<3>>
    /\ ret.b = <<>>

\* C7: once the left input of Diff has reported exhaustion the stage has
\* returned from iterate: it makes no further Next call on the right input
\* and no further combine call, emits nothing more and closes its output;
\* the right input keeps every value not yet pulled.
C7_DiffStopsOnLeftExhaustion ==
    /\ [](\A k \in Stages :
            (stage[k].op = "diff" /\ stage[k].eof1)
                => /\ stage[k].pc \in {"close", "done"}
                   /\ closed[k] <=> stage[k].pc = "done")
    /\ [][\A k \in Stages :
            (stage[k].op = "diff" /\ stage[k].eof1)
                => /\ stage'[k].n2 = stage[k].n2
                   /\ stage'[k].calls = stage[k].calls
                   /\ stage'[k].sent = stage[k].sent
                   /\ stage'[k].pc \in {"close", "done"}]_vars
    /\ []((stage.outer.op = "diff" /\ stage.outer.eof1 /\ TestDone)
            => LET pulled == stage.outer.n2 - (IF stage.outer.eof2 THEN 1 ELSE 0)
               IN ret.b = SubSeq(slice.b, pulled + 1, Len(slice.b)))

\* Diff([1], [1,2,3]) gave [] and left [2,3] on the right
C7_Witness ==
    /\ stage.outer.op = "diff"
    /\ stage.outer.asc
    /\ slice.a = <<1>>
    /\ slice.b = <<1, 2, 3>>
    /\ stage.outer.eof1
    /\ TestDone
    /\ ret.outer = <<>>
    /\ ret.b = <<2, 3>>

\* C8: when a Union stage has closed its output both inputs have reported
\* exhaustion, whatever the inputs, so a later drain of either is empty.
C8_UnionNeverStopsEarly ==
    (stage.outer.op = "union" /\ closed.outer)
        => /\ stage.outer.eof1 /\ stage.outer.eof2
           /\ pos.a = Len(slice.a) /\ pos.b = Len(slice.b)
           /\ ret.a = <<>> /\ ret.b = <<>>

\* a Union over an input that is not sorted, both inputs drained afterwards
C8_Witness ==
    /\ stage.outer.op = "union"
    /\ TestDone
    /\ ~StrictlySorted(slice.a, stage.outer.asc)
    /\ Len(slice.b) >= 2

IsPrefix(s, t) == Len(s) <= Len(t) /\ s = SubSeq(t, 1, Len(s))

\* what the pipeline of this behaviour gives when each stage is run alone,
\* to its return, the inner one first; it reads the slices and the
\* arguments of the stages only, which no action changes
Sequential ==
    LET o == stage.outer
        i == stage.inner
        inner == Output(i.op, slice.a, slice.b, i.asc)
    IN CASE i.pc = "none" -> Output(o.op, slice.a, slice.b, o.asc)
         [] o.in1 = "inner" -> Output(o.op, inner, slice.c, o.asc)
         [] OTHER -> Output(o.op, slice.c, inner, o.asc)

\* C9: for fixed inputs and direction every interleaving of the stage tasks
\* and the consumer of a pipeline (one stage, or two nested) delivers the
\* same sequence to the terminal consumer: with every value received a
\* prefix of, and when ToSlice returns all of, what the stages give when run
\* one after another.
C9_OutputDeterminism ==
    /\ [][ret'.outer # ret.outer => IsPrefix(ret'.outer, Sequential)]_vars
    /\ [](Drained("outer") => ret.outer = Sequential)

\* a nested pipeline delivered two values while its inner stage had already
\* been running ahead of the outer one
C9_Witness ==
    /\ stage.inner.pc # "none"
    /\ TestDone
    /\ Len(ret.outer) >= 2
    /\ stage.inner.sent >= 2
    /\ stage.outer.op = "union"
    /\ stage.inner.op = "diff"

\* the set an operation stands for
SetResult(op, A, B) ==
    CASE op = "union" -> A \cup B
      [] op = "intersect" -> A \cap B
      [] op = "diff" -> A \ B

\* the downstream stage has returned while the upstream stage has handed
\* over fewer values than its result holds
Leaky ==
    /\ stage.inner.pc # "none"
    /\ stage.outer.op \in {"intersect", "diff"}
    /\ stage.outer.pc \in {"close", "done"}
    /\ stage.inner.sent
         < Cardinality(SetResult(stage.inner.op, Elems(slice.a), Elems(slice.b)))

\* C10: when a downstream Intersect or Diff stage stops while the upstream
\* stage still has a value to emit, the downstream stage returns without
\* draining that input, and the upstream task stays blocked on Push for
\* ever and never closes its output.
C10_UpstreamLeak ==
    /\ [](Leaky => ~closed.inner /\ stage.inner.pc # "done")
    /\ [][(stage.outer.pc \in {"close", "done"} /\ stage.inner.pc = "push")
            => /\ stage'.inner = stage.inner
               /\ closed'.inner = closed.inner
               /\ stage'.outer.pc \in {"close", "done"}]_vars

\* Intersect(Union(A, B), C) with C exhausted first: the test is over, the
\* Intersect stage is done, the Union stage is in Push with its pipe open
C10_Witness ==
    /\ stage.outer.op = "intersect"
    /\ stage.inner.op = "union"
    /\ stage.outer.in1 = "inner"
    /\ stage.outer.eof2 /\ ~stage.outer.eof1
    /\ TestDone
    /\ stage.outer.pc = "done" /\ closed.outer
    /\ stage.inner.pc = "push" /\ ~closed.inner
    /\ Leaky

\* C11: for finite slice-backed inputs and a consumer that keeps calling
\* Next until exhaustion, under fair scheduling a single Union, Intersect or
\* Diff stage eventually returns from iterate and closes its output, and
\* the consumer's ToSlice eventually returns.
C11_StageTermination ==
    /\ <>(stage.outer.pc = "done" /\ closed.outer)
    /\ <>Drained("outer")

\* a stage that pushed two values and went through a drain is done, its
\* pipe is closed and ToSlice has returned
C11_Witness ==
    /\ stage.outer.pc = "done"
    /\ closed.outer
    /\ Drained("outer")
    /\ stage.outer.eof1 /\ stage.outer.eof2
    /\ Len(ret.outer) >= 2

\* the number of ToSlice calls on x still to return
Pending(x) == Cardinality({i \in 1..Len(todo) : todo[i] = x})

\* a Next on stream x has returned !ok: to a stage that reads x, or to a
\* ToSlice of the test, which has then returned
Exhausted(x) ==
    \/ \E k \in Stages :
         /\ stage[k].pc # "none"
         /\ \/ stage[k].in1 = x /\ stage[k].eof1
            \/ stage[k].in2 = x /\ stage[k].eof2
    \/ /\ x \in {"outer", "b"} \/ (x = "a" /\ stage.outer.op # "producer")
       /\ Pending(x) <= Again

\* C12: once Next has returned ok=false on a SliceStream that is not Reset,
\* on a closed ChannelStream or on the output of a stage, every later Next
\* returns ok=false: the reader gets no further value, the cursor and the
\* closed pipe stay as they are, and each later ToSlice returns with nothing.
C12_ExhaustionIsPermanent ==
    /\ [](\A x \in Stages : Exhausted(x) => closed[x])
    /\ [][\A x \in {"outer", "a", "b"} :
            Exhausted(x)
                => /\ ret'[x] = ret[x]
                   /\ x \in Slices => pos'[x] = pos[x]
                   /\ x \in Stages => closed'[x]
                   /\ (todo # <<>> /\ Head(todo) = x /\ todo' # todo)
                        => todo' = Tail(todo)]_vars

\* every further ToSlice has returned: on the result of a stage that gave
\* values, on an input it had exhausted and on one it had left values on
C12_Witness ==
    /\ stage.outer.op \in Ops
    /\ TestDone
    /\ Len(ret.outer) >= 1
    /\ stage.outer.eof1
    /\ Len(slice.a) >= 2
    /\ ret.a = <<>>
    /\ Len(ret.b) >= 1

\* the Push calls a stage has made, returned or not
Produced(s) ==
    Len(SelectSeq(s.calls, LAMBDA c : operation(s.op, c[1], c[2]) # <<>>))

\* the values the consumer of stage k has received from it
Received(k) ==
    IF k = "outer" THEN Len(ret.outer)
    ELSE IF stage.outer.in1 = k
    THEN stage.outer.n1 - (IF stage.outer.eof1 THEN 1 ELSE 0)
    ELSE stage.outer.n2 - (IF stage.outer.eof2 THEN 1 ELSE 0)

\* the consumer of stage k is inside a Next call on k's ChannelStream
Pulling(k) ==
    IF k = "outer" THEN todo # <<>> /\ Head(todo) = "outer"
    ELSE stage.outer.pc \in ReadPcs /\ ReadFrom(stage.outer) = k

\* C13: a Push completes only together with a matching Next: the values a
\* stage has finished pushing are those its consumer has received, at most
\* one Push per stage is in flight, and a stage whose consumer is not
\* pulling does not get past its Push.
C13_SynchronousHandoff ==
    /\ [](\A k \in Stages :
            stage[k].pc # "none"
                => /\ stage[k].sent = Received(k)
                   /\ Produced(stage[k]) - stage[k].sent \in {0, 1}
                   /\ Produced(stage[k]) - stage[k].sent = 1
                        <=> stage[k].pc = "push")
    /\ [][\A k \in Stages :
            stage'[k].sent # stage[k].sent
                => /\ Pulling(k)
                   /\ stage'[k].sent = stage[k].sent + 1]_vars

\* the outer stage stopped without ever pulling from the inner one, which
\* sits in its first Push although it has more to give
C13_Witness ==
    /\ stage.outer.in2 = "inner"
    /\ stage.outer.pc = "done"
    /\ TestDone
    /\ Received("inner") = 0
    /\ stage.inner.pc = "push"
    /\ Produced(stage.inner) = 1
    /\ stage.inner.sent = 0
    /\ Len(slice.a) + Len(slice.b) >= 2

\* C14: ToSlice returns exactly the values the stream emits before
\* exhaustion, in emission order: [v1..vn] for a ChannelStream whose one
\* producer pushes v1..vn and closes while ToSlice runs, and s for a fresh
\* SliceStream over s.
C14_Materialization ==
    /\ IsPrefix(ret.outer, slice.a)
    /\ IsPrefix(ret.b, slice.b)
    /\ Drained("outer") => ret.outer = slice.a
    /\ Drained("b") => ret.b = slice.b

\* both tests are over with three values each, one of them repeated
C14_Witness ==
    /\ TestDone
    /\ Len(ret.outer) = 3
    /\ Len(ret.b) = 3
    /\ ret.outer[1] = ret.outer[3]
    /\ ret.outer[1] # ret.outer[2]

\* C15: when one side reports exhaustion and the stop policy returns false,
\* the core passes the other side's buffered head (if any) and every value
\* it pulls from that side afterwards to combine exactly once, until that
\* side is exhausted too, and returns; so a stage that has drained has
\* passed every value of each input to combine once, in order.
C15_DrainDeliversOnce ==
    \A k \in Stages :
        (stage[k].op \in Ops /\ stage[k].pc \in {"close", "done"}
           /\ stage[k].eof1 /\ stage[k].eof2)
            => /\ LeftArgs(stage[k].calls) = slice[stage[k].in1]
               /\ RightArgs(stage[k].calls) = slice[stage[k].in2]

\* the head of stream1 is behind the head of stream2 in the declared direction
Behind1(s) == IF s.asc THEN s.i1 < s.i2 ELSE s.i1 > s.i2

\* C16: every combine invocation is left-only, right-only or both-present,
\* never both absent; a both-present one is made only in the comparison
\* step for equal heads, and both sides advance; a one-side invocation of
\* the comparison step is for the side whose head is behind in the declared
\* direction, and only that side advances.
C16_PresenceSignal ==
    /\ [](\A k \in Stages : \A i \in 1..Len(stage[k].calls) :
            LET c == stage[k].calls[i]
            IN /\ c[1] # Nil \/ c[2] # Nil
               /\ (c[1] # Nil /\ c[2] # Nil) => c[1] = c[2])
    /\ [][\A k \in Stages :
            LET s == stage[k]
                n == Len(stage'[k].calls)
            IN /\ n \in {Len(s.calls), Len(s.calls) + 1}
               /\ (n > Len(s.calls) /\ stage'[k].calls[n][1] # Nil
                     /\ stage'[k].calls[n][2] # Nil)
                    => s.pc = "compare" /\ s.i1 = s.i2
               /\ (s.pc = "compare" /\ stage'[k] # s)
                    => /\ n = Len(s.calls) + 1
                       /\ IF s.i1 = s.i2
                          THEN /\ stage'[k].calls[n] = <<Ref(s.i1), Ref(s.i2)>>
                               /\ stage'[k].empty1 /\ stage'[k].empty2
                          ELSE IF Behind1(s)
                          THEN /\ stage'[k].calls[n] = <<Ref(s.i1), Nil>>
                               /\ stage'[k].empty1 /\ ~stage'[k].empty2
                          ELSE /\ stage'[k].calls[n] = <<Nil, Ref(s.i2)>>
                               /\ stage'[k].empty2 /\ ~stage'[k].empty1]_vars

\* a descending stage has made a both-present, a left-only and a
\* right-only call in its comparison step
C16_Witness ==
    /\ ~stage.outer.asc
    /\ stage.outer.pc = "done"
    /\ ~stage.outer.eof1 \/ ~stage.outer.eof2
    /\ \E i, j, l \in 1..Len(stage.outer.calls) :
         LET c == stage.outer.calls
         IN /\ c[i][1] # Nil /\ c[i][2] # Nil
            /\ c[j][1] # Nil /\ c[j][2] = Nil
            /\ c[l][1] = Nil /\ c[l][2] # Nil

\* the last call of combine a stage made, <<>> if it made none
LastCall(s) == IF s.calls = <<>> THEN <<>> ELSE s.calls[Len(s.calls)]

\* C17: the left side is pulled before the right one, so an Intersect that
\* stops because the right input reports exhaustion has pulled exactly one
\* left value that it never passed to combine; one that stops because the
\* left input reports exhaustion has lost a right value only when a right
\* head was buffered (the last step passed a left-only value), and none
\* when the last step was an equal match.
C17_IntersectResidue ==
    (stage.outer.op = "intersect" /\ TestDone)
        => LET s == stage.outer
           IN /\ s.eof1 # s.eof2
              /\ s.eof2 => /\ Len(Head1(s)) = 1
                           /\ slice.a = LeftArgs(s.calls) \o Head1(s) \o ret.a
                           /\ slice.b = RightArgs(s.calls)
                           /\ ret.b = <<>>
              /\ s.eof1 => /\ Head1(s) = <<>>
                           /\ slice.a = LeftArgs(s.calls)
                           /\ slice.b = RightArgs(s.calls) \o Head2(s) \o ret.b
                           /\ Head2(s) # <<>>
                                <=> (s.calls # <<>> /\ LastCall(s)[2] = Nil)
                           /\ (s.calls # <<>> /\ LastCall(s)[1] # Nil
                                 /\ LastCall(s)[2] # Nil)
                                => slice.b = RightArgs(s.calls) \o ret.b

\* intersect([3,2,1], [3]) descending: 2 was pulled and dropped, 1 is left
C17_Witness ==
    /\ stage.outer.op = "intersect"
    /\ ~stage.outer.asc
    /\ TestDone
    /\ slice.a = <<3, 2, 1>>
    /\ slice.b = <<3>>
    /\ stage.outer.eof2
    /\ ret.outer = <<3>>
    /\ ret.a = <<1>>

\* C18: a stage closes its output only after iterate has returned, so from
\* the moment the consumer has seen its output exhausted the stage takes no
\* further step and makes no Next call on either input; the reads of the
\* inputs made afterwards are the reader's alone.
C18_InputsQuiescent ==
    /\ [](closed.outer => stage.outer.pc = "done")
    /\ [][Drained("outer")
            => /\ stage' = stage
               /\ pos' # pos => (todo # <<>> /\ Head(todo) \in Slices)]_vars

\* after an early stop the test has drained values from an input
C18_Witness ==
    /\ TestDone
    /\ stage.outer.op = "diff"
    /\ Len(ret.b) >= 2
    /\ Len(ret.outer) >= 1

\* C19: the output stream of a stage has the stage's task as its only
\* producer, Close is called on it exactly once, after iterate returned,
\* and no Push on it happens after Close, whether the merge loop ends by
\* full exhaustion or by early stop.
C19_OutputChannelDiscipline ==
    /\ [](\A k \in Stages : closed[k] <=> stage[k].pc = "done")
    /\ [][\A k \in Stages :
            /\ closed[k] => (closed'[k] /\ stage'[k] = stage[k])
            /\ closed'[k] # closed[k]
                 => (stage[k].pc = "close" /\ stage'[k].pc = "done")
            /\ (stage[k].pc # "none" /\ Received(k)' # Received(k))
                 => /\ stage[k].pc = "push"
                    /\ stage'[k].sent = stage[k].sent + 1]_vars

\* a Diff stage that stopped early and the Union stage feeding it, which
\* ran to full exhaustion, have both closed their outputs
C19_Witness ==
    /\ stage.outer.op = "diff"
    /\ stage.outer.in2 = "inner"
    /\ stage.inner.op = "union"
    /\ closed.outer /\ closed.inner
    /\ stage.outer.eof1 /\ stage.outer.eof2
    /\ stage.inner.sent >= 2
    /\ Len(ret.outer) >= 1

\* C20: when both inputs are strictly sorted in the declared direction the
\* sequence a stage emits is strictly sorted in that direction, with no
\* repeated value, at every prefix.
C20_OutputStrictlySorted ==
    StrictlySorted(ret.outer, stage.outer.asc)

====
